---- MODULE Spec2Model ----
(***************************************************************************)
(* Model of the weekly report run of dtm-weekly-insights:                  *)
(*   scripts/generate-report.js  main()  (aggregator, narrative generator, *)
(*   report writer) and the dashboard's load of the persisted artifact.    *)
(***************************************************************************)
EXTENDS Integers, Sequences, FiniteSets, TLC

\* ---------------------------------------------------------------- bounds
\* number of distinct failure messages an adapter may reject with
MaxMsgs == 1

\* round is called with the values m / 10 and m / 100, -MaxMantissa <= m <= MaxMantissa
MaxMantissa == 30

\* largest number of items (campaigns, pages, videos) in a filtered list
MaxCohort == 2

\* largest number of credentials missing from the environment
MaxAbsent == 2

\* largest number of sub-items (pages, broadcasts, videos) an adapter lists
MaxItems == 2

\* the most landing pages one Unbounce record lists
MaxPages == 3

\* the most engagement segments one Vimeo answer holds
MaxSegments == 3

\* ------------------------------------------------------- program constants
\* the 7 fetchers handed to Promise.allSettled, in array order
NumAdapters == 7

Names == <<"ga4", "gsc", "youtube", "kit", "meta", "unbounce", "vimeo">>

Idx == 1..NumAdapters

\* --------------------------------------------------------------- variables
VARIABLES
  pc,          \* position of main()
  started,     \* how many fetchX() calls of the array literal have been made
  promise,     \* promise[i]: state of the i-th promise given to allSettled
  data,        \* const data (CombinedSnapshot), NoData before line 164
  calls,       \* sequence of anthropic.messages.create requests issued
  rawResponse, \* let rawResponse
  retryText,   \* const retryText
  insights,    \* let insights
  file,        \* content of OUTPUT_PATH on disk
  file0,       \* content of OUTPUT_PATH when the run started
  writes,      \* number of fs.writeFileSync calls
  savedLogged, \* "Report saved to ..." was logged
  fatal,       \* the error that reached main().catch
  exitCode,    \* process exit code, -1 while the process runs
  now,         \* the run's clock reading (new Date())
  view,        \* dashboard App: "loading" | "error" | "report"
  observed,    \* what the dashboard's fetch found at OUTPUT_PATH
  calc,        \* one call of an adapter helper: its arguments and its result
  env,         \* the names of the environment variables that are set
  fetcher,     \* fetcher[i]: how far the i-th adapter's fetchX() has come
  job          \* one adapter's fetchX() in detail: its calls, sub-items, outcome

vars == <<pc, started, promise, data, calls, rawResponse, retryText, insights,
          file, file0, writes, savedLogged, fatal, exitCode, now, view, observed,
          calc, env, fetcher, job>>

\* the variables of the report run and of the dashboard
runVars == <<pc, started, promise, data, calls, rawResponse, retryText, insights,
             file, file0, writes, savedLogged, fatal, exitCode, now, view, observed>>

\* the variables the report run never touches
sideVars == <<calc, env, fetcher, job>>

mainVars == <<pc, started, promise, data, calls, rawResponse, retryText,
              insights, file, file0, writes, savedLogged, fatal, exitCode, now>>

\* ---------------------------------------------------------------- values
NoData == [unset |-> TRUE]

NoText == <<[t |-> "unset", v |-> ""]>>

NoInsights == [kind |-> "unset", fields |-> [x \in {} |-> ""]]

NoError == [name |-> "none", at |-> "none"]

Pending == [status |-> "pending"]

NotStarted == [status |-> "none"]

\* the normalized record adapter i resolves with
Record(i) == [source |-> Names[i], ok |-> TRUE]

\* the Error objects adapter i may reject with (throw new Error(...))
Reasons(i) == { [message |-> [source |-> Names[i], code |-> k]] : k \in 1..MaxMsgs }

Settled(i) == promise[i].status \in {"fulfilled", "rejected"}

AllSettled == \A i \in Idx : Settled(i)

Failed == { i \in Idx : promise[i].status = "rejected" }

\* ------------------------------------------------- generator response texts
\* A response text is a sequence of tokens: the opening fence ```json, the
\* closing fence ```, whitespace, prose, or one complete JSON document.
Open == [t |-> "open", v |-> ""]

Close == [t |-> "close", v |-> ""]

Ws == [t |-> "ws", v |-> ""]

Prose == [t |-> "prose", v |-> ""]

J(d) == [t |-> "json", v |-> d]

\* the JSON documents the generator may return
DocNames == {"full", "dated", "blankweek", "nofunnel", "array", "null"}

RequiredFields == {"weeklyVerdict", "funnelHealth", "urgentActions",
                   "insights", "doNotTouch", "watchNextWeek"}

Stages == {"awareness", "consideration", "conversion", "retention"}

WriterFields == {"weekOf", "generatedAt", "rawData"}

Narrative(tag) ==
  [f \in RequiredFields |->
     IF f = "funnelHealth" THEN [s \in Stages |-> tag] ELSE [s \in {"text"} |-> tag]]

Restrict(f, S) == [x \in (DOMAIN f) \cap S |-> f[x]]

\* a timestamp the generator made up, never a reading of the run's clock
StaleStamp == [date |-> "2000-01-01", time |-> "00:00"]

EmptyObject == [x \in {} |-> ""]

\* JSON.parse of one document
DocValue(d) ==
  CASE d = "full"     -> [kind |-> "object", fields |-> Narrative("a")]
    [] d = "dated"    -> [kind |-> "object",
                          fields |-> Narrative("b")
                                     @@ [weekOf |-> [date |-> "1999-12-27"],
                                         generatedAt |-> StaleStamp,
                                         rawData |-> EmptyObject]]
    [] d = "blankweek" -> [kind |-> "object",
                           fields |-> Narrative("d") @@ [weekOf |-> [date |-> ""]]]
    [] d = "nofunnel" -> [kind |-> "object",
                          fields |-> Restrict(Narrative("c"), RequiredFields \ {"funnelHealth"})]
    [] d = "array"    -> [kind |-> "array", fields |-> EmptyObject]
    [] d = "null"     -> [kind |-> "null", fields |-> EmptyObject]

\* the texts the text-generation service may answer with
Texts ==
  { <<J(d)>> : d \in DocNames }
  \cup { <<Open, Ws, J("full"), Ws, Close>>,
         <<Prose, J("full")>> }

RECURSIVE DropLeadingWs(_)
DropLeadingWs(s) ==
  IF s # <<>> /\ Head(s) = Ws THEN DropLeadingWs(Tail(s)) ELSE s

RECURSIVE DropTrailingWs(_)
DropTrailingWs(s) ==
  IF s # <<>> /\ s[Len(s)] = Ws THEN DropTrailingWs(SubSeq(s, 1, Len(s) - 1)) ELSE s

\* String.prototype.trim
Trim(s) == DropTrailingWs(DropLeadingWs(s))

\* .replace(/^```json\s*/i, '')
StripOpenFence(s) ==
  IF s # <<>> /\ Head(s) = Open THEN DropLeadingWs(Tail(s)) ELSE s

\* .replace(/\s*```$/, '')
StripCloseFence(s) ==
  IF s # <<>> /\ s[Len(s)] = Close
  THEN DropTrailingWs(SubSeq(s, 1, Len(s) - 1)) ELSE s

\* const cleaned = rawResponse.replace(...).replace(...).trim()
Cleaned(s) == Trim(StripCloseFence(StripOpenFence(s)))

\* JSON.parse(text): a value, or SyntaxError
JSONParse(s) ==
  LET body == Trim(s) IN
  IF Len(body) = 1 /\ body[1].t = "json"
  THEN [ok |-> TRUE, value |-> DocValue(body[1].v)]
  ELSE [ok |-> FALSE, value |-> NoInsights]

\* first attempt: JSON.parse(cleaned)
ParseFirst(text) == JSONParse(Cleaned(text))

\* retry: JSON.parse(retryMessage.content[0].text.trim())
ParseRetry(text) == JSONParse(Trim(text))

\* ------------------------------------------------------------ aggregator
\* one slot of the snapshot (lines 165-171):
\*   r.status === 'fulfilled' ? r.value : { error: r.reason?.message }
Slot(r) ==
  IF r.status = "fulfilled" THEN r.value ELSE [error |-> r.reason.message]

\* mutant of BuildData: the kit slot reads metaResult (a copy-paste slip)
BuildDataSwapped ==
  [ga4      |-> Slot(promise[1]),
   gsc      |-> Slot(promise[2]),
   youtube  |-> Slot(promise[3]),
   kit      |-> Slot(promise[5]),
   meta     |-> Slot(promise[5]),
   unbounce |-> Slot(promise[6]),
   vimeo    |-> Slot(promise[7])]

\* const data = { ga4: ..., ..., vimeo: ... } over the destructured results
BuildData ==
  [ga4      |-> Slot(promise[1]),
   gsc      |-> Slot(promise[2]),
   youtube  |-> Slot(promise[3]),
   kit      |-> Slot(promise[4]),
   meta     |-> Slot(promise[5]),
   unbounce |-> Slot(promise[6]),
   vimeo    |-> Slot(promise[7])]

\* JSON.stringify(x, null, 2) of one slot, as the text embedded in the prompt
Stringify(x) == [json |-> x]

\* buildPrompt(data): the template's data sections, in the template's order
BuildPrompt(d) ==
  <<[section |-> "GA4",      body |-> Stringify(d.ga4)],
    [section |-> "GSC",      body |-> Stringify(d.gsc)],
    [section |-> "YouTube",  body |-> Stringify(d.youtube)],
    [section |-> "Meta",     body |-> Stringify(d.meta)],
    [section |-> "Kit",      body |-> Stringify(d.kit)],
    [section |-> "Unbounce", body |-> Stringify(d.unbounce)],
    [section |-> "Vimeo",    body |-> Stringify(d.vimeo)]>>

\* the first request to anthropic.messages.create
FirstRequest(d) ==
  [attempt |-> 1, prompt |-> BuildPrompt(d), assistant |-> NoText, correction |-> FALSE]

\* the retry request: the prompt again, the bad answer, and the correction
RetryRequest(d, raw) ==
  [attempt |-> 2, prompt |-> BuildPrompt(d), assistant |-> raw, correction |-> TRUE]

\* ------------------------------------------------------ report writer
\* the run's clock, read by new Date() in lines 223-224
RunClock == [date |-> "2025-01-06", time |-> "08:00"]

\* new Date().toISOString().split('T')[0]
DateOf(ts) == [date |-> ts.date]

\* a property can be set on the parsed value (objects and arrays; null throws)
CanHoldProperties(v) == v.kind \in {"object", "array"}

\* truthiness of insights.weekOf: a missing or empty value is falsy
HasWeekOf(v) == "weekOf" \in DOMAIN v.fields /\ v.fields["weekOf"].date # ""

\* insights.weekOf = insights.weekOf || <run date>
WeekOf(v) ==
  IF HasWeekOf(v) THEN v.fields["weekOf"] ELSE DateOf(now)

\* mutant of Enrich: the failed sources' slots are deleted from the snapshot
\* before it is attached as rawData
EnrichPruned(v) ==
  [kind   |-> v.kind,
   fields |-> [weekOf |-> WeekOf(v), generatedAt |-> now,
               rawData |-> [s \in { Names[i] : i \in Idx \ Failed } |-> data[s]]]
              @@ v.fields]

\* lines 223-225
Enrich(v) ==
  [kind   |-> v.kind,
   fields |-> [weekOf |-> WeekOf(v), generatedAt |-> now, rawData |-> data]
              @@ v.fields]

\* what JSON.stringify(insights, null, 2) puts in the file, as a reader parses
\* it back: an array is serialized by its elements only, named properties are
\* not written
Persisted(ins) ==
  IF ins.kind = "array"
  THEN [kind |-> "array", fields |-> EmptyObject]
  ELSE [kind |-> "object", fields |-> ins.fields]

Absent == [state |-> "absent", doc |-> NoInsights]

\* the file after open(O_TRUNC) and before the last byte is written
Partial == [state |-> "partial", doc |-> NoInsights]

Complete(doc) == [state |-> "complete", doc |-> doc]

\* the artifact a previous run left behind
PrevArtifact ==
  Complete([kind |-> "object",
            fields |-> Narrative("prev")
                       @@ [weekOf |-> [date |-> "2024-12-30"],
                           generatedAt |-> [date |-> "2024-12-30", time |-> "08:00"],
                           rawData |-> [ga4 |-> Record(1), gsc |-> Record(2),
                                        youtube |-> Record(3), kit |-> Record(4),
                                        meta |-> Record(5), unbounce |-> Record(6),
                                        vimeo |-> Record(7)]]])

Err(name, at) == [name |-> name, at |-> at]

Terminal == {"done", "exited"}

\* ------------------------------------------------------- adapter helpers
\* JavaScript values the helpers are called with.  A finite number is held
\* exactly as n / 10^e; for Infinity n is the sign.
Num(n, e) == [k |-> "number", n |-> n, e |-> e]

Null == [k |-> "null", n |-> 0, e |-> 0]

Undefined == [k |-> "undefined", n |-> 0, e |-> 0]

NaN == [k |-> "NaN", n |-> 0, e |-> 0]

Infinity(sign) == [k |-> "Infinity", n |-> sign, e |-> 0]

\* the result slot of a helper call that has not returned yet
NotRun == [k |-> "notrun", n |-> 0, e |-> 0]

NoCall == [op |-> "none", owner |-> "none", field |-> "none", args |-> <<>>, out |-> NotRun]

RECURSIVE Pow10(_)
Pow10(e) == IF e = 0 THEN 1 ELSE 10 * Pow10(e - 1)

\* !v
Falsy(v) == v.k \in {"null", "undefined", "NaN"} \/ (v.k = "number" /\ v.n = 0)

\* the number an operand of - * / is converted to
ToNumber(v) ==
  IF v.k = "null" THEN Num(0, 0) ELSE IF v.k = "undefined" THEN NaN ELSE v

\* Math.round(N / D) for D # 0: the nearest integer, a tie goes to the larger
MathRound(N, D) ==
  IF D > 0 THEN (2 * N + D) \div (2 * D) ELSE (D - 2 * N) \div (-(2 * D))

\* Math.round(((c - p) / p) * 1000) / 10 on numbers c = cn/10^ce, p = pn/10^pe
RatioPerMille(c, p) ==
  LET N == 1000 * (c.n * Pow10(p.e) - p.n * Pow10(c.e))
      D == p.n * Pow10(c.e)
  IN  IF c.k # "number" \/ p.k # "number" THEN NaN
      ELSE IF D = 0
           THEN (IF N = 0 THEN NaN ELSE Infinity(IF N > 0 THEN 1 ELSE -1))
           ELSE Num(MathRound(N, D), 1)

\* mutant of pct: only a missing previous value is caught, 0 is divided by
pctUnguarded(current, previous) ==
  IF previous.k \in {"null", "undefined"} THEN Null
  ELSE RatioPerMille(ToNumber(current), ToNumber(previous))

\* pct(current, previous): the same four lines in ga4, youtube, meta,
\* unbounce and vimeo
pct(current, previous) ==
  IF Falsy(previous) \/ (previous.k = "number" /\ previous.n = 0) THEN Null
  ELSE RatioPerMille(ToNumber(current), ToNumber(previous))

\* the adapters that have a round helper, and its default for decimals
RoundOwners == {"kit", "meta", "unbounce", "vimeo"}

DefaultDecimals(owner) == IF owner = "meta" THEN 2 ELSE 1

\* mutant of round: the scaled value is not divided back
roundScaled(val, decimals) ==
  LET v == ToNumber(val)
  IN  IF v.k # "number" THEN v
      ELSE Num(MathRound(v.n * Pow10(decimals), Pow10(v.e)), 0)

\* round(val, decimals): Math.round(val * factor) / factor, factor = 10^decimals
round(val, decimals) ==
  LET v == ToNumber(val)
  IN  IF v.k # "number" THEN v
      ELSE Num(MathRound(v.n * Pow10(decimals), Pow10(v.e)), decimals)

\* a call round(val) or round(val, d) in the given adapter's file
RoundCall(owner, val, d) ==
  round(val, IF d = Undefined THEN DefaultDecimals(owner) ELSE d.n)

\* the week-over-week delta fields the adapters report
DeltaFields ==
  [ga4      |-> {"sessionsDelta", "newUsersDelta", "bounceRateDelta", "engagementDelta"},
   gsc      |-> {"positionDelta", "clicksDelta"},
   youtube  |-> {"viewsDelta", "watchTimeDelta", "avgDurationDelta"},
   meta     |-> {"spendDelta", "impressionsDelta", "ctrDelta", "cpmDelta", "leadsDelta",
                 "costPerLeadDelta"},
   unbounce |-> {"conversionDelta", "visitorsDelta"},
   vimeo    |-> {"playsDelta", "finishRateDelta"}]

\* current - previous on numbers
Minus(c, p) ==
  IF c.k # "number" \/ p.k # "number" THEN NaN
  ELSE IF c.e >= p.e THEN Num(c.n - p.n * Pow10(c.e - p.e), c.e)
       ELSE Num(c.n * Pow10(p.e - c.e) - p.n, p.e)

\* mutant of DeltaField: gsc reports its two deltas with pct as well
DeltaFieldAllPct(owner, field, current, previous) == pct(current, previous)

\* the value an adapter reports in a delta field, from the current value and
\* the previous one (for gsc: Undefined when the query has no row last week)
DeltaField(owner, field, current, previous) ==
  IF owner = "gsc"
  THEN IF previous = Undefined THEN Null
       ELSE IF field = "positionDelta"
            THEN round(Minus(ToNumber(previous), ToNumber(current)), 1)
            ELSE Minus(ToNumber(current), ToNumber(previous))
  ELSE IF owner = "meta" /\ field = "costPerLeadDelta"
       THEN IF ~Falsy(current) /\ ~Falsy(previous) THEN pct(current, previous) ELSE Null
       ELSE pct(current, previous)

\* the sum of a sequence of integers
RECURSIVE Sum(_)
Sum(arr) == IF arr = <<>> THEN 0 ELSE arr[1] + Sum(Tail(arr))

\* avg(arr) of unbounce.js and part_001, as the fraction num / den
avg(arr) ==
  IF Len(arr) = 0 THEN [num |-> 0, den |-> 1] ELSE [num |-> Sum(arr), den |-> Len(arr)]

\* the .filter(Boolean) before avg: zero (and missing) rates are left out
NonZero(arr) == SelectSeq(arr, LAMBDA x : x # 0)

\* the rates of a list of items
Rates(items) == [i \in 1..Len(items) |-> items[i].rate]

\* mutant of Flagged: either condition flags a page or a video
FlaggedEither(owner, items, avgCPL) ==
  LET a == avg(NonZero(Rates(items)))
  IN  { i \in 1..Len(items) :
          IF owner = "unbounce"
          THEN items[i].volume > 50 \/ 2 * items[i].rate * a.den < a.num
          ELSE IF owner = "vimeo"
               THEN items[i].volume > 10 \/ 10 * items[i].rate * a.den < 7 * a.num
               ELSE \/ avgCPL # 0 /\ items[i].cpl # 0 /\ 2 * items[i].cpl > 3 * avgCPL
                    \/ items[i].rate < 50 /\ items[i].volume > 50 }

\* the positions of the items the adapter puts in its problem list.
\*   unbounce problemPages: rate = conversionRate in tenths, volume = visitors
\*   vimeo lowFinishRate:   rate = finishRate in tenths, volume = plays
\*   meta underperforming:  rate = ctr in hundredths, volume = spend,
\*                          cpl = costPerLead (0: null), avgCPL the account's
Flagged(owner, items, avgCPL) ==
  LET a == avg(NonZero(Rates(items)))
  IN  { i \in 1..Len(items) :
          IF owner = "unbounce"
          THEN items[i].volume > 50 /\ 2 * items[i].rate * a.den < a.num
          ELSE IF owner = "vimeo"
               THEN items[i].volume > 10 /\ 10 * items[i].rate * a.den < 7 * a.num
               ELSE \/ avgCPL # 0 /\ items[i].cpl # 0 /\ 2 * items[i].cpl > 3 * avgCPL
                    \/ items[i].rate < 50 /\ items[i].volume > 50 }

\* ------------------------------------------------------------ credentials
\* the environment variables each fetchX() reads, in the order it checks them
Credentials ==
  <<  <<"GA4_PROPERTY_ID", "GOOGLE_SERVICE_ACCOUNT">>,
      <<"GSC_SITE_URL", "GOOGLE_SERVICE_ACCOUNT">>,
      <<"GOOGLE_SERVICE_ACCOUNT">>,
      <<"KIT_API_SECRET">>,
      <<"META_AD_ACCOUNT_ID", "META_ACCESS_TOKEN">>,
      <<"UNBOUNCE_ACCESS_TOKEN">>,
      <<"VIMEO_ACCESS_TOKEN">>  >>

\* the three variables getAccessToken needs to ask for a fresh token
RefreshTrio == {"UNBOUNCE_REFRESH_TOKEN", "UNBOUNCE_CLIENT_ID", "UNBOUNCE_CLIENT_SECRET"}

AllCredentials ==
  RefreshTrio \cup UNION { { Credentials[i][j] : j \in 1..Len(Credentials[i]) } : i \in Idx }

NoFailure == [kind |-> "none", name |-> ""]

\* new Error('<name> env var is missing')
Missing(name) == [kind |-> "missing", name |-> name]

\* the first variable adapter i finds unset ("" when it finds them all)
FirstMissing(i) ==
  LET unset == { j \in 1..Len(Credentials[i]) : Credentials[i][j] \notin env }
  IN  IF unset = {} THEN ""
      ELSE Credentials[i][CHOOSE j \in unset : \A k \in unset : j <= k]

\* sent: the number of fetch / client calls the adapter has issued
NotFetching == [pc |-> "idle", sent |-> 0, error |-> NoFailure]

\* ------------------------------------------- vendor calls and sub-items
\* what a vendor answers to one request
Responses == [status : {200, 403, 500}, body : {"data", "apiError", "malformed"}]

NoThrow == [type |-> "none", vendor |-> FALSE, detail |-> FALSE]

\* an error thrown by a vendor helper: its type, whether its message holds
\* the vendor's name, and whether it holds the vendor's status or message
Thrown(type, vendor, detail) == [type |-> type, vendor |-> vendor, detail |-> detail]

\* kitGet, unbounceGet, vimeoGet, metaGet: what the helper throws for an
\* answer (NoThrow: it returns the parsed body)
Get(owner, resp) ==
  IF owner = "meta"
  THEN IF resp.body = "malformed" THEN Thrown("SyntaxError", FALSE, FALSE)
       ELSE IF resp.body = "apiError" THEN Thrown("Error", TRUE, TRUE)
            ELSE NoThrow
  ELSE IF resp.status # 200
       THEN Thrown("Error", TRUE, TRUE)
       ELSE IF resp.body = "malformed" THEN Thrown("SyntaxError", FALSE, FALSE)
            ELSE NoThrow

\* the adapters that enrich a list of sub-items, one request group per item
ItemOwners == {"kit", "unbounce", "vimeo"}

NoRecord == [items |-> {}, errors |-> {}, noEngagement |-> {}, built |-> FALSE]

NoJob == [owner |-> "none", pc |-> "off", n |-> 0, published |-> {},
          answers |-> <<>>, item |-> <<>>, engagement |-> <<>>,
          record |-> NoRecord, error |-> NoThrow]

\* the record the adapter returns: the sub-items its lists are built from, and
\* the sub-items it reports with an error field.
\*   kit:      completedBroadcasts = those with statsAvailable !== false
\*   unbounce: publishedPages = those published and without error
\*   vimeo:    validVideos, and errors = errorVideos as {title, error};
\*             noEngagement = the validVideos whose engagement is null
Returned(j) ==
  [items  |-> { i \in 1..j.n : j.item[i] = "ok" /\ i \in j.published },
   errors |-> IF j.owner = "vimeo" THEN { i \in 1..j.n : j.item[i] = "failed" } ELSE {},
   noEngagement |-> { i \in 1..j.n : j.item[i] = "ok" /\ j.engagement[i] = "null" },
   built  |-> TRUE]

\* ------------------------------------------------------------------ Init
Init ==
  /\ pc = "launch"
  /\ started = 0
  /\ promise = [i \in Idx |-> NotStarted]
  /\ data = NoData
  /\ calls = <<>>
  /\ rawResponse = NoText
  /\ retryText = NoText
  /\ insights = NoInsights
  /\ file \in {Absent, PrevArtifact}
  /\ file0 = file
  /\ writes = 0
  /\ savedLogged = FALSE
  /\ fatal = NoError
  /\ exitCode = -1
  /\ now = RunClock
  /\ view = "loading"
  /\ observed = [state |-> "none", doc |-> NoInsights]
  /\ calc = NoCall
  /\ env = {}
  /\ fetcher = [i \in Idx |-> NotFetching]
  /\ job = NoJob

\* --------------------------------------------------------------- actions
\* main().catch(err => { console.error(...); process.exit(1); })
Die(err) ==
  /\ pc' = "exited"
  /\ exitCode' = 1
  /\ fatal' = err
  /\ UNCHANGED savedLogged

\* mutant of Launch: each fetcher is awaited before the next one is started
LaunchSequential ==
  /\ pc = "launch"
  /\ started < NumAdapters
  /\ started' = started + 1
  /\ promise' = [i \in Idx |->
                   IF i = started + 1 THEN Pending
                   ELSE IF i = started
                        THEN [status |-> "fulfilled", value |-> Record(i)]
                        ELSE promise[i]]
  /\ pc' = IF started + 1 = NumAdapters THEN "awaitAll" ELSE "launch"
  /\ UNCHANGED <<data, calls, rawResponse, retryText, insights, file, file0,
                 writes, savedLogged, fatal, exitCode, now, view, observed>>
  /\ UNCHANGED sideVars

\* one element of the array literal of lines 142-150: fetchX().then(...)
Launch ==
  /\ pc = "launch"
  /\ started < NumAdapters
  /\ started' = started + 1
  /\ promise' = [promise EXCEPT ![started + 1] = Pending]
  /\ pc' = IF started + 1 = NumAdapters THEN "awaitAll" ELSE "launch"
  /\ UNCHANGED <<data, calls, rawResponse, retryText, insights, file, file0,
                 writes, savedLogged, fatal, exitCode, now, view, observed>>
  /\ UNCHANGED sideVars

\* adapter i settles while main() is suspended in await Promise.allSettled
Settle(i) ==
  /\ pc = "awaitAll"
  /\ promise[i] = Pending
  /\ \/ promise' = [promise EXCEPT ![i] = [status |-> "fulfilled", value |-> Record(i)]]
     \/ \E e \in Reasons(i) :
          promise' = [promise EXCEPT ![i] = [status |-> "rejected", reason |-> e]]
  /\ UNCHANGED <<pc, started, data, calls, rawResponse, retryText, insights, file,
                 file0, writes, savedLogged, fatal, exitCode, now, view, observed>>
  /\ UNCHANGED sideVars

\* mutant of Aggregate: Promise.all instead of Promise.allSettled, the first
\* rejection rejects main()
AggregateFailFast ==
  /\ pc = "awaitAll"
  /\ \/ /\ AllSettled
        /\ Failed = {}
        /\ data' = BuildData
        /\ calls' = Append(calls, FirstRequest(BuildData))
        /\ pc' = "gen1"
        /\ UNCHANGED <<savedLogged, fatal, exitCode>>
     \/ /\ Failed # {}
        /\ Die(Err("AdapterError", "fetch"))
        /\ UNCHANGED <<data, calls>>
  /\ UNCHANGED <<started, promise, rawResponse, retryText, insights, file, file0,
                 writes, now, view, observed>>
  /\ UNCHANGED sideVars

\* mutant of Aggregate: the snapshot is also written to OUTPUT_PATH right away
AggregateWithCheckpoint ==
  /\ pc = "awaitAll"
  /\ AllSettled
  /\ data' = BuildData
  /\ calls' = Append(calls, FirstRequest(BuildData))
  /\ pc' = "gen1"
  /\ writes' = writes + 1
  /\ file' = Complete([kind |-> "object", fields |-> [rawData |-> BuildData]])
  /\ UNCHANGED <<started, promise, rawResponse, retryText, insights, file0,
                 savedLogged, fatal, exitCode, now, view, observed>>
  /\ UNCHANGED sideVars

\* allSettled resolves: lines 152-186, up to the await of the first request
Aggregate ==
  /\ pc = "awaitAll"
  /\ AllSettled
  /\ data' = BuildData
  /\ calls' = Append(calls, FirstRequest(BuildData))
  /\ pc' = "gen1"
  /\ UNCHANGED <<started, promise, rawResponse, retryText, insights, file, file0,
                 writes, savedLogged, fatal, exitCode, now, view, observed>>
  /\ UNCHANGED sideVars

\* lines 223-231 after a successful parse, up to the first byte written
TailAfterParse(v) ==
  IF ~CanHoldProperties(v)
  THEN /\ insights' = v
       /\ Die(Err("TypeError", "enrich"))
       /\ UNCHANGED <<file, writes>>
  ELSE /\ insights' = Enrich(v)
       /\ \/ /\ file.state = "absent"
             /\ Die(Err("FsError", "mkdir"))
             /\ UNCHANGED <<file, writes>>
          \/ /\ writes' = writes + 1
             /\ Die(Err("FsError", "open"))
             /\ UNCHANGED file
          \/ /\ writes' = writes + 1
             /\ file' = Partial
             /\ pc' = "writing"
             /\ UNCHANGED <<fatal, exitCode, savedLogged>>

\* the first request resolves with a text: lines 188-216
OnFirstResponse(text) ==
  /\ pc = "gen1"
  /\ rawResponse' = text
  /\ IF ParseFirst(text).ok
     THEN /\ TailAfterParse(ParseFirst(text).value)
          /\ UNCHANGED <<calls, retryText>>
     ELSE /\ calls' = Append(calls, RetryRequest(data, text))
          /\ pc' = "gen2"
          /\ UNCHANGED <<retryText, insights, file, writes, savedLogged, fatal, exitCode>>
  /\ UNCHANGED <<started, promise, data, file0, now, view, observed>>
  /\ UNCHANGED sideVars

\* the first request rejects (API error; not a SyntaxError): line 218
FirstCallFails ==
  /\ pc = "gen1"
  /\ Die(Err("APIError", "call1"))
  /\ UNCHANGED <<started, promise, data, calls, rawResponse, retryText, insights,
                 file, file0, writes, now, view, observed>>
  /\ UNCHANGED sideVars

\* mutant of OnRetryResponse: a retry that does not parse is replaced by {}
OnRetryResponseEmpty(text) ==
  /\ pc = "gen2"
  /\ retryText' = Trim(text)
  /\ IF ParseRetry(text).ok
     THEN TailAfterParse(ParseRetry(text).value)
     ELSE TailAfterParse([kind |-> "object", fields |-> EmptyObject])
  /\ UNCHANGED <<started, promise, data, calls, rawResponse, file0, now, view, observed>>
  /\ UNCHANGED sideVars

\* mutant of OnRetryResponse: JSON.parse is given the first answer again
OnRetryResponseStale(text) ==
  /\ pc = "gen2"
  /\ retryText' = Trim(text)
  /\ IF ParseFirst(rawResponse).ok
     THEN TailAfterParse(ParseFirst(rawResponse).value)
     ELSE /\ Die(Err("SyntaxError", "parse2"))
          /\ UNCHANGED <<insights, file, writes>>
  /\ UNCHANGED <<started, promise, data, calls, rawResponse, file0, now, view, observed>>
  /\ UNCHANGED sideVars

\* the retry request resolves with a text: lines 214-216, then 223-231
OnRetryResponse(text) ==
  /\ pc = "gen2"
  /\ retryText' = Trim(text)
  /\ IF ParseRetry(text).ok
     THEN TailAfterParse(ParseRetry(text).value)
     ELSE /\ Die(Err("SyntaxError", "parse2"))
          /\ UNCHANGED <<insights, file, writes>>
  /\ UNCHANGED <<started, promise, data, calls, rawResponse, file0, now, view, observed>>
  /\ UNCHANGED sideVars

\* the retry request rejects inside the catch block
RetryCallFails ==
  /\ pc = "gen2"
  /\ Die(Err("APIError", "call2"))
  /\ UNCHANGED <<started, promise, data, calls, rawResponse, retryText, insights,
                 file, file0, writes, now, view, observed>>
  /\ UNCHANGED sideVars

\* fs.writeFileSync returns: lines 231-238, main() resolves
WriteFinish ==
  /\ pc = "writing"
  /\ file' = Complete(Persisted(insights))
  /\ savedLogged' = TRUE
  /\ pc' = "done"
  /\ exitCode' = 0
  /\ UNCHANGED <<started, promise, data, calls, rawResponse, retryText, insights,
                 file0, writes, fatal, now, view, observed>>
  /\ UNCHANGED sideVars

\* mutant of WriteFail: the write error is caught and logged, main() goes on
WriteFailSwallowed ==
  /\ pc = "writing"
  /\ savedLogged' = TRUE
  /\ pc' = "done"
  /\ exitCode' = 0
  /\ UNCHANGED <<started, promise, data, calls, rawResponse, retryText, insights,
                 file, file0, writes, fatal, now, view, observed>>
  /\ UNCHANGED sideVars

\* fs.writeFileSync throws after truncating the file (disk full, I/O error)
WriteFail ==
  /\ pc = "writing"
  /\ Die(Err("FsError", "write"))
  /\ UNCHANGED <<started, promise, data, calls, rawResponse, retryText, insights,
                 file, file0, writes, now, view, observed>>
  /\ UNCHANGED sideVars

\* mutant of DashboardFetch: r.ok is the only test, a body that does not parse
\* is rendered as it is
DashboardFetchUnparsed ==
  /\ view = "loading"
  /\ observed' = file
  /\ view' = IF file.state # "absent" THEN "report" ELSE "error"
  /\ UNCHANGED mainVars
  /\ UNCHANGED sideVars

\* dashboard App: the mount effect's fetch("/insights.json") and its handlers
DashboardFetch ==
  /\ view = "loading"
  /\ observed' = file
  /\ view' = IF file.state = "complete" THEN "report" ELSE "error"
  /\ UNCHANGED mainVars
  /\ UNCHANGED sideVars

Next ==
  \/ Launch
  \/ \E i \in Idx : Settle(i)
  \/ Aggregate
  \/ \E text \in Texts : OnFirstResponse(text)
  \/ FirstCallFails
  \/ \E text \in Texts : OnRetryResponse(text)
  \/ RetryCallFails
  \/ WriteFinish
  \/ WriteFail
  \/ DashboardFetch

Spec == Init /\ [][Next]_vars

\* ------------------------------------------------ the helpers, one call each
\* no report run is in progress
RunIdle ==
  /\ pc = "off"
  /\ started = 0
  /\ promise = [i \in Idx |-> NotStarted]
  /\ data = NoData
  /\ calls = <<>>
  /\ rawResponse = NoText
  /\ retryText = NoText
  /\ insights = NoInsights
  /\ file = Absent
  /\ file0 = Absent
  /\ writes = 0
  /\ savedLogged = FALSE
  /\ fatal = NoError
  /\ exitCode = -1
  /\ now = RunClock
  /\ view = "loading"
  /\ observed = [state |-> "none", doc |-> NoInsights]

\* --------------------------------------------------- Unbounce panel badges
\* the record's averageConversionRate: round(avgConvRate, 1), in tenths of a
\* percent like the pages' own rates
averageConversionRate(items) ==
  LET a == avg(NonZero(Rates(items))) IN MathRound(a.num, a.den)

\* UnbouncePanel: flag = pct < avg * 0.5 && p.thisWeek?.visitors > 50, with
\* avg the record's averageConversionRate
LowConv(items) ==
  { i \in 1..Len(items) :
      2 * items[i].rate < averageConversionRate(items) /\ items[i].volume > 50 }

\* ----------------------------------------------------- Vimeo engagement
\* the loop of parseEngagement from segment i on (1-based; the code's i is one
\* less). retention is counted in thousandths; acc holds biggestDrop and
\* biggestDropAt, unset standing for their initial null. !biggestDrop is true
\* of null and of 0. A segment's start_time is represented by its position.
RECURSIVE BiggestDropFrom(_, _, _)
BiggestDropFrom(retention, i, acc) ==
  IF i > Len(retention) THEN acc
  ELSE LET drop == retention[i - 1] - retention[i]
       IN  IF acc.unset \/ acc.drop = 0 \/ drop > acc.drop
           THEN BiggestDropFrom(retention, i + 1,
                                [unset |-> FALSE, drop |-> drop, at |-> i])
           ELSE BiggestDropFrom(retention, i + 1, acc)

\* the biggest-drop fields of parseEngagement's result; biggestDropSeconds 0
\* stands for null
parseEngagement(retention) ==
  LET acc == BiggestDropFrom(retention, 2, [unset |-> TRUE, drop |-> 0, at |-> 0])
  IN  [k |-> "engagement", n |-> 0, e |-> 0,
       biggestDropSeconds |-> acc.at,
       biggestDropPct |-> IF acc.unset \/ acc.drop = 0 THEN Null
                          ELSE round(Num(100 * acc.drop, 3), 1)]

\* ------------------------------------------------------------ date windows
\* the adapters that compare a current with a prior period
WindowOwners == {"ga4", "gsc", "youtube", "meta", "unbounce", "vimeo"}

\* the daysAgo(n) arguments of each adapter's two windows; Vimeo's current
\* window ends at `now`
WindowDays(owner) ==
  CASE owner = "gsc" ->
         [thisStart |-> 10, thisEnd |-> 3, lastStart |-> 17, lastEnd |-> 11]
    [] owner = "vimeo" ->
         [thisStart |-> 7, thisEnd |-> 0, lastStart |-> 14, lastEnd |-> 8]
    [] OTHER ->
         [thisStart |-> 7, thisEnd |-> 1, lastStart |-> 14, lastEnd |-> 8]

\* daysAgo(n): the calendar day n days before the run's day
daysAgo(today, n) == today - n

\* the hours a window covers, as the half-open interval [from, to) counted
\* from hour 0 of day 0. The date adapters send calendar dates and the vendor
\* takes both as inclusive; Vimeo sends instants (toISOString of the run's
\* time of day shifted by whole days).
Covered(owner, today, hour, start, end) ==
  IF owner = "vimeo"
  THEN [from |-> 24 * daysAgo(today, start) + hour,
        to   |-> 24 * daysAgo(today, end) + hour]
  ELSE [from |-> 24 * daysAgo(today, start),
        to   |-> 24 * (daysAgo(today, end) + 1)]

Windows(owner, today, hour) ==
  LET w == WindowDays(owner)
  IN  [k |-> "windows", n |-> 0, e |-> 0,
       cur  |-> Covered(owner, today, hour, w.thisStart, w.thisEnd),
       prev |-> Covered(owner, today, hour, w.lastStart, w.lastEnd)]

\* metric values a current/previous pair is made of
PctValues ==
  {Null, Undefined} \cup { Num(n, 0) : n \in {-16, 0, 15, 16, 17, 80, 100, 120} }
                    \cup { Num(455, 1), Num(125, 2) }

PctCalls ==
  { [op |-> "pct", owner |-> "ga4", field |-> "none", args |-> <<c, p>>, out |-> NotRun] :
      c \in PctValues, p \in PctValues }

RoundCalls ==
  { [op |-> "round", owner |-> o, field |-> "none", args |-> <<Num(m, e), d>>,
      out |-> NotRun] :
      o \in RoundOwners, m \in (-MaxMantissa)..MaxMantissa, e \in {1, 2},
      d \in {Undefined, Num(0, 0), Num(1, 0), Num(2, 0)} }

\* values of a metric in one week: absent, null, zero or a number
MetricValues == {Undefined, Null, Num(0, 0), Num(35, 1), Num(82, 1), Num(120, 0)}

DeltaCalls ==
  { [op |-> "delta", owner |-> o, field |-> f, args |-> <<c, p>>, out |-> NotRun] :
      o \in DOMAIN DeltaFields, f \in UNION { DeltaFields[a] : a \in DOMAIN DeltaFields },
      c \in MetricValues \ {Undefined}, p \in MetricValues }

\* the items a list is filtered from, by adapter
Items(owner) ==
  IF owner = "unbounce"
  THEN [rate : {0, 10, 20, 100}, volume : {50, 51}, cpl : {0}]
  ELSE IF owner = "vimeo"
       THEN [rate : {0, 100, 250, 400}, volume : {10, 11}, cpl : {0}]
       ELSE [rate : {40, 50}, volume : {50, 51}, cpl : {0, 20, 40}]

Cohorts(owner) == UNION { [1..n -> Items(owner)] : n \in 1..MaxCohort }

FlagCalls ==
  UNION { { [op |-> "flag", owner |-> o, field |-> "none", args |-> <<items, a>>,
             out |-> NotRun] :
              items \in Cohorts(o), a \in (IF o = "meta" THEN {0, 20} ELSE {0}) } :
          o \in {"meta", "unbounce", "vimeo"} }

\* the day and the hour of day a run starts at
WindowCalls ==
  { [op |-> "window", owner |-> o, field |-> "none",
     args |-> <<Num(t, 0), Num(h, 0)>>, out |-> NotRun] :
      o \in WindowOwners, t \in {20, 21}, h \in {0, 9, 23} }

\* the pages of one Unbounce record (at most ten, so topPages holds them all)
PanelCalls ==
  { [op |-> "badge", owner |-> "unbounce", field |-> "none", args |-> <<items>>,
     out |-> NotRun] :
      items \in UNION { [1..n -> [rate : {0, 1, 3, 10}, volume : {50, 51}, cpl : {0}]] :
                          n \in 1..MaxPages } }

\* the retention values of an answer's segments, in thousandths
EngagementCalls ==
  { [op |-> "engagement", owner |-> "vimeo", field |-> "none", args |-> <<r>>,
     out |-> NotRun] :
      r \in UNION { [1..n -> {400, 500, 505}] : n \in 1..MaxSegments } }

CalcInit ==
  /\ RunIdle
  /\ env = {}
  /\ fetcher = [i \in Idx |-> NotFetching]
  /\ job = NoJob
  /\ calc \in PctCalls \cup RoundCalls
              \cup { d \in DeltaCalls : d.field \in DeltaFields[d.owner] }
              \cup FlagCalls
              \cup WindowCalls
              \cup PanelCalls
              \cup EngagementCalls

ApplyPct ==
  /\ calc.op = "pct"
  /\ calc.out = NotRun
  /\ calc' = [calc EXCEPT !.out = pct(calc.args[1], calc.args[2])]
  /\ UNCHANGED <<runVars, env, fetcher, job>>

ApplyRound ==
  /\ calc.op = "round"
  /\ calc.out = NotRun
  /\ calc' = [calc EXCEPT !.out = RoundCall(calc.owner, calc.args[1], calc.args[2])]
  /\ UNCHANGED <<runVars, env, fetcher, job>>

\* an adapter fills one delta field of its record
ReportDelta ==
  /\ calc.op = "delta"
  /\ calc.out = NotRun
  /\ calc' = [calc EXCEPT !.out = DeltaField(calc.owner, calc.field,
                                              calc.args[1], calc.args[2])]
  /\ UNCHANGED <<runVars, env, fetcher, job>>

\* an adapter filters its list of items
FilterList ==
  /\ calc.op = "flag"
  /\ calc.out = NotRun
  /\ calc' = [calc EXCEPT !.out = [k |-> "flags", n |-> 0, e |-> 0,
                                   mean    |-> avg(NonZero(Rates(calc.args[1]))),
                                   flagged |-> Flagged(calc.owner, calc.args[1],
                                                       calc.args[2])]]
  /\ UNCHANGED <<runVars, env, fetcher, job>>

\* an adapter computes its two date windows
ReportWindows ==
  /\ calc.op = "window"
  /\ calc.out = NotRun
  /\ calc' = [calc EXCEPT !.out = Windows(calc.owner, calc.args[1].n, calc.args[2].n)]
  /\ UNCHANGED <<runVars, env, fetcher, job>>

\* the adapter picks its problemPages and the dashboard badges its topPages
RenderUnbouncePanel ==
  /\ calc.op = "badge"
  /\ calc.out = NotRun
  /\ calc' = [calc EXCEPT !.out = [k |-> "badges", n |-> 0, e |-> 0,
                                   flagged |-> Flagged("unbounce", calc.args[1], 0),
                                   badged  |-> LowConv(calc.args[1])]]
  /\ UNCHANGED <<runVars, env, fetcher, job>>

\* the Vimeo adapter parses one video's engagement segments
ParseEngagement ==
  /\ calc.op = "engagement"
  /\ calc.out = NotRun
  /\ calc' = [calc EXCEPT !.out = parseEngagement(calc.args[1])]
  /\ UNCHANGED <<runVars, env, fetcher, job>>

CalcNext ==
  \/ ApplyPct
  \/ ApplyRound
  \/ ReportDelta
  \/ FilterList
  \/ ReportWindows
  \/ RenderUnbouncePanel
  \/ ParseEngagement

CalcSpec == CalcInit /\ [][CalcNext]_vars

\* --------------------------------------- the adapters up to their first answer
FetchInit ==
  /\ RunIdle
  /\ calc = NoCall
  /\ env \in { AllCredentials \ S : S \in { T \in SUBSET AllCredentials :
                                              Cardinality(T) <= MaxAbsent } }
  /\ fetcher = [i \in Idx |-> NotFetching]
  /\ job = NoJob

\* fetchX() is called (in the order of the array literal) and runs to its
\* first await or throw
StartFetch(i) ==
  /\ fetcher[i].pc = "idle"
  /\ \A j \in 1..(i - 1) : fetcher[j].pc # "idle"
  /\ fetcher' = [fetcher EXCEPT ![i] =
       IF Names[i] = "unbounce" /\ RefreshTrio \subseteq env
       THEN [pc |-> "refresh", sent |-> 1, error |-> NoFailure]
       ELSE IF FirstMissing(i) # ""
            THEN [pc |-> "rejected", sent |-> 0, error |-> Missing(FirstMissing(i))]
            ELSE [pc |-> "call", sent |-> 1, error |-> NoFailure]]
  /\ UNCHANGED <<runVars, calc, env, job>>

\* getAccessToken: the POST to /0.1/oauth/token settles.
\*   "throws":  fetch rejects, or res.json() throws on a 2xx body
\*   "ok":      2xx with an access_token
\*   "empty":   2xx without an access_token: token = data.access_token
\*              replaces the stored one with undefined
\*   "refused": not res.ok, the stored token is kept
RefreshSettles(i, outcome) ==
  /\ fetcher[i].pc = "refresh"
  /\ fetcher' = [fetcher EXCEPT ![i] =
       IF outcome = "throws"
       THEN [pc |-> "rejected", sent |-> 1, error |-> [kind |-> "network", name |-> ""]]
       ELSE IF outcome = "ok" \/ (outcome = "refused" /\ "UNBOUNCE_ACCESS_TOKEN" \in env)
            THEN [pc |-> "call", sent |-> 2, error |-> NoFailure]
            ELSE [pc |-> "rejected", sent |-> 1,
                  error |-> Missing("UNBOUNCE_ACCESS_TOKEN")]]
  /\ UNCHANGED <<runVars, calc, env, job>>

\* the adapter's vendor calls settle: it resolves, or rejects with their error
VendorSettles(i, ok) ==
  /\ fetcher[i].pc = "call"
  /\ fetcher' = [fetcher EXCEPT ![i] =
       IF ok THEN [@ EXCEPT !.pc = "resolved"]
       ELSE [@ EXCEPT !.pc = "rejected", !.error = [kind |-> "vendor", name |-> Names[i]]]]
  /\ UNCHANGED <<runVars, calc, env, job>>

FetchNext ==
  \/ \E i \in Idx : StartFetch(i)
  \/ \E i \in Idx, outcome \in {"ok", "empty", "refused", "throws"} : RefreshSettles(i, outcome)
  \/ \E i \in Idx, ok \in BOOLEAN : VendorSettles(i, ok)

FetchSpec == FetchInit /\ [][FetchNext]_vars

\* ------------------------------------------------- one adapter, in detail
JobInit ==
  /\ RunIdle
  /\ calc = NoCall
  /\ env = {}
  /\ fetcher = [i \in Idx |-> NotFetching]
  /\ \E o \in ItemOwners \cup {"meta"}, n \in 0..MaxItems, pub \in SUBSET (1..MaxItems) :
       /\ o = "meta" => n = 0
       /\ pub \subseteq 1..n
       /\ o # "unbounce" => pub = 1..n
       /\ job = [NoJob EXCEPT !.owner = o, !.pc = "list", !.n = n, !.published = pub,
                              !.item = [i \in 1..n |-> "pending"],
                              !.engagement = [i \in 1..n |-> "none"]]

\* the adapter's own request before the sub-items (the list of broadcasts,
\* pages or videos; meta's insights) is answered
ListResponds(resp) ==
  /\ job.pc = "list"
  /\ job' = [job EXCEPT
       !.answers = Append(@, resp),
       !.error = Get(job.owner, resp),
       !.pc = IF Get(job.owner, resp) # NoThrow THEN "rejected"
              ELSE IF job.owner = "meta" \/ (job.owner = "vimeo" /\ job.n = 0)
                   THEN "resolved"
                   ELSE "items",
       !.record = IF Get(job.owner, resp) = NoThrow
                     /\ (job.owner = "meta" \/ (job.owner = "vimeo" /\ job.n = 0))
                  THEN Returned(job) ELSE NoRecord]
  /\ UNCHANGED <<runVars, calc, env, fetcher>>

\* mutant of ItemSettles: the sub-item's requests are made outside try/catch
ItemSettlesUncaught(i, resp) ==
  /\ job.pc = "items"
  /\ i \in 1..job.n
  /\ job.item[i] = "pending"
  /\ job' = IF Get(job.owner, resp) = NoThrow THEN [job EXCEPT !.item[i] = "ok"]
            ELSE [job EXCEPT !.item[i] = "failed", !.pc = "rejected",
                             !.error = Get(job.owner, resp)]
  /\ UNCHANGED <<runVars, calc, env, fetcher>>

\* the requests for sub-item i are answered; a throw is caught in the item's
\* own try/catch
ItemSettles(i, resp) ==
  /\ job.pc = "items"
  /\ i \in 1..job.n
  /\ job.item[i] = "pending"
  /\ job' = [job EXCEPT !.item[i] = IF Get(job.owner, resp) = NoThrow THEN "ok"
                                    ELSE "failed"]
  /\ UNCHANGED <<runVars, calc, env, fetcher>>

\* mutant of EngagementSettles: the engagement request is made outside the
\* inner try/catch, so its throw reaches the video's outer catch
EngagementSettlesUncaught(i, resp) ==
  /\ job.pc = "items"
  /\ job.owner = "vimeo"
  /\ i \in 1..job.n
  /\ job.item[i] = "ok"
  /\ job.engagement[i] = "none"
  /\ job' = IF Get(job.owner, resp) = NoThrow
            THEN [job EXCEPT !.engagement[i] = "data"]
            ELSE [job EXCEPT !.engagement[i] = "null", !.item[i] = "failed"]
  /\ UNCHANGED <<runVars, calc, env, fetcher>>

\* a Vimeo video's engagement request, made once its two stats requests have
\* succeeded, is answered; a throw is swallowed by the inner try/catch and
\* leaves engagementData null
EngagementSettles(i, resp) ==
  /\ job.pc = "items"
  /\ job.owner = "vimeo"
  /\ i \in 1..job.n
  /\ job.item[i] = "ok"
  /\ job.engagement[i] = "none"
  /\ job' = [job EXCEPT !.engagement[i] = IF Get(job.owner, resp) = NoThrow THEN "data"
                                          ELSE "null"]
  /\ UNCHANGED <<runVars, calc, env, fetcher>>

\* Promise.all over the sub-items resolves
Collect ==
  /\ job.pc = "items"
  /\ \A i \in 1..job.n : job.item[i] # "pending"
  /\ job.owner = "vimeo" =>
       \A i \in 1..job.n : job.item[i] = "ok" => job.engagement[i] # "none"
  /\ job' = IF job.owner = "kit" THEN [job EXCEPT !.pc = "rest"]
            ELSE [job EXCEPT !.pc = "resolved", !.record = Returned(job)]
  /\ UNCHANGED <<runVars, calc, env, fetcher>>

\* kit's subscriber counts, requested after the broadcasts, are answered
RestResponds(resp) ==
  /\ job.pc = "rest"
  /\ job' = [job EXCEPT
       !.answers = Append(@, resp),
       !.error = Get(job.owner, resp),
       !.pc = IF Get(job.owner, resp) # NoThrow THEN "rejected" ELSE "resolved",
       !.record = IF Get(job.owner, resp) = NoThrow THEN Returned(job) ELSE NoRecord]
  /\ UNCHANGED <<runVars, calc, env, fetcher>>

JobNext ==
  \/ \E resp \in Responses : ListResponds(resp)
  \/ \E i \in 1..MaxItems, resp \in Responses : ItemSettles(i, resp)
  \/ \E i \in 1..MaxItems, resp \in Responses : EngagementSettles(i, resp)
  \/ Collect
  \/ \E resp \in Responses : RestResponds(resp)

JobSpec == JobInit /\ [][JobNext]_vars

\* ------------------------------------------------------------ properties
SourceNames == { Names[i] : i \in Idx }

\* the first answer did not parse after the fences were stripped
FirstParseFailed == rawResponse # NoText /\ ~ParseFirst(rawResponse).ok

\* the retry's answer did not parse
RetryParseFailed == retryText # NoText /\ ~JSONParse(retryText).ok

\* the retry's answer is a JSON object
RetryValid ==
  /\ retryText # NoText
  /\ JSONParse(retryText).ok
  /\ JSONParse(retryText).value.kind = "object"

\* the fields of a document other than the three the report writer sets
NarrativeOf(f) == Restrict(f, (DOMAIN f) \ WriterFields)

\* the value main() accepted as the narrative
Accepted ==
  IF ParseFirst(rawResponse).ok THEN ParseFirst(rawResponse).value
  ELSE JSONParse(retryText).value

HasRequiredFields(doc) ==
  /\ doc.kind = "object"
  /\ RequiredFields \subseteq DOMAIN doc.fields
  /\ Stages \subseteq DOMAIN doc.fields["funnelHealth"]

\* C1: whatever subset of the 7 adapters fails and in whatever order they
\* settle, the snapshot has exactly the 7 source keys, and slot X holds
\* adapter X's fulfilled value or {error: X's failure message}.
C1_SnapshotHasSevenSlots ==
  data # NoData =>
    /\ DOMAIN data = SourceNames
    /\ Cardinality(DOMAIN data) = NumAdapters
    /\ \A i \in Idx :
         /\ Settled(i)
         /\ promise[i].status = "fulfilled" => data[Names[i]] = promise[i].value
         /\ promise[i].status = "rejected" =>
              data[Names[i]] = [error |-> promise[i].reason.message]

C1_Witness == data # NoData /\ Failed = {1, 4, 6}

\* C2: no adapter settles before all 7 have been started (no start waits on
\* another adapter), and while any adapter is pending main() is still waiting:
\* no snapshot, no generator call, no exit, whatever the others did.
C2_AllLaunchedThenAllAwaited ==
  /\ (\E i \in Idx : Settled(i)) => started = NumAdapters
  /\ (\E i \in Idx : ~Settled(i)) =>
        /\ calls = <<>>
        /\ data = NoData
        /\ pc \in {"launch", "awaitAll"}
        /\ exitCode = -1

C2_Witness ==
  /\ pc = "awaitAll"
  /\ \E i \in Idx : promise[i].status = "rejected"
  /\ \E i \in Idx : promise[i] = Pending

\* C3: adapter failures never stop the run: every finished run called the
\* generator with the combined snapshot, a non-zero exit is always due to
\* generation, enrichment or the file system, and a run whose generation and
\* write succeeded persisted the artifact and exited with 0.
C3_AdapterFailuresNeverStopRun ==
  /\ pc \in Terminal => Len(calls) >= 1
  /\ Len(calls) >= 1 => calls[1].prompt = BuildPrompt(data) /\ data # NoData
  /\ exitCode = 1 => fatal.name \in {"APIError", "SyntaxError", "TypeError", "FsError"}
  /\ (pc \in Terminal /\ CanHoldProperties(insights) /\ fatal.name # "FsError") =>
        /\ exitCode = 0
        /\ file = Complete(Persisted(insights))

C3_Witness == pc = "done" /\ Failed = Idx /\ file.state = "complete" /\ exitCode = 0

\* C4: a first answer that does not parse leads to exactly one retry call, no
\* run makes more than two calls, and a retry that does not parse ends the
\* run with exit code 1, without a third call and without writing the file.
C4_RetryExactlyOnce ==
  /\ Len(calls) <= 2
  /\ FirstParseFailed => Len(calls) = 2 /\ calls[2].attempt = 2
  /\ ~FirstParseFailed => Len(calls) <= 1
  /\ RetryParseFailed =>
        /\ pc = "exited"
        /\ exitCode = 1
        /\ Len(calls) = 2
        /\ writes = 0
        /\ file = file0

C4_Witness == FirstParseFailed /\ RetryParseFailed /\ pc = "exited"

\* C5: after an unparseable first answer and a retry that is a JSON object,
\* the narrative is the retry's, two calls were made, a finished run persisted
\* the retry's narrative fields, and only a file-system error can fail the run.
C5_RetryContentUsed ==
  (FirstParseFailed /\ RetryValid) =>
    /\ Len(calls) = 2
    /\ insights.kind = "object"
    /\ NarrativeOf(insights.fields) = NarrativeOf(JSONParse(retryText).value.fields)
    /\ pc \in {"writing", "done", "exited"}
    /\ pc = "done" =>
         /\ file.state = "complete"
         /\ NarrativeOf(file.doc.fields) = NarrativeOf(JSONParse(retryText).value.fields)
    /\ pc = "exited" => fatal.name = "FsError"

C5_Witness == FirstParseFailed /\ RetryValid /\ pc = "done"

\* C6: an error raised after aggregation reaches main().catch: the process
\* exits with 1, "Report saved" is not logged, and nothing is retried (a
\* failed first call leaves one call, a failed retry two, a failed write one
\* write).
C6_LateErrorsAreFatal ==
  /\ fatal # NoError <=> exitCode = 1
  /\ fatal # NoError => pc = "exited" /\ ~savedLogged
  /\ fatal.at = "call1" => Len(calls) = 1 /\ writes = 0
  /\ fatal.at \in {"call2", "parse2"} => Len(calls) = 2 /\ writes = 0
  /\ fatal.name = "FsError" => writes <= 1 /\ Len(calls) <= 2
  /\ RetryParseFailed => fatal = Err("SyntaxError", "parse2")
  /\ (pc \in Terminal /\ file = Partial) =>
        /\ fatal = Err("FsError", "write")
        /\ exitCode = 1
        /\ ~savedLogged

C6_Witness == fatal = Err("FsError", "write") /\ file = Partial

\* C7 (as claimed): every artifact a run persists has all required narrative
\* fields, funnelHealth with its four stages included.
C7_PersistedMatchesSchema ==
  (pc = "done" /\ file.state = "complete") => HasRequiredFields(file.doc)

\* C8 (as claimed): every persisted artifact is the accepted narrative with
\* generatedAt set to the run's clock, weekOf kept or defaulted to the run
\* date, rawData set to this run's snapshot, and all other fields unchanged.
C8_ArtifactIsNarrativePlusStamps ==
  pc = "done" =>
    /\ WriterFields \subseteq DOMAIN file.doc.fields
    /\ file.doc.fields["generatedAt"] = now
    /\ file.doc.fields["weekOf"] =
         (IF "weekOf" \in DOMAIN Accepted.fields /\ Accepted.fields["weekOf"] # [date |-> ""]
          THEN Accepted.fields["weekOf"] ELSE DateOf(now))
    /\ file.doc.fields["rawData"] = data
    /\ NarrativeOf(file.doc.fields) = NarrativeOf(Accepted.fields)
    /\ DOMAIN file.doc.fields = (DOMAIN Accepted.fields) \cup WriterFields

\* C9: the file is written at most once per run, only after all 7 adapters
\* settled and an answer was parsed, and a run that failed before the write
\* left the previous artifact as it was.
C9_SingleWriteAfterJoin ==
  /\ writes <= 1
  /\ writes = 1 =>
        /\ AllSettled
        /\ data # NoData
        /\ insights # NoInsights
        /\ ParseFirst(rawResponse).ok \/ (retryText # NoText /\ JSONParse(retryText).ok)
  /\ file # file0 => writes = 1
  /\ (pc = "exited" /\ writes = 0) => file = file0

C9_Witness == pc = "done" /\ writes = 1 /\ file0 = PrevArtifact /\ file # file0

\* C10 (as claimed): a load of the artifact path never finds a half-written
\* document.
C10_ReaderNeverSeesPartial == observed.state # "partial"

\* C11: once built, the snapshot is what the aggregator made of the settled
\* results and stays so through prompt building, both generator calls and the
\* enrichment; every request carries the prompt built from it (the retry the
\* same prompt as the first call), and the rawData the report writer attaches,
\* and that a persisted object carries, is that snapshot.
C11_SnapshotNeverMutated ==
  data # NoData =>
    /\ data = BuildData
    /\ \A k \in 1..Len(calls) : calls[k].prompt = BuildPrompt(BuildData)
    /\ Len(calls) = 2 => calls[2].prompt = calls[1].prompt
    /\ insights.kind \in {"object", "array"} => insights.fields["rawData"] = BuildData
    /\ (pc = "done" /\ "rawData" \in DOMAIN file.doc.fields) =>
          file.doc.fields["rawData"] = BuildData

C11_Witness ==
  /\ pc = "done"
  /\ Len(calls) = 2
  /\ Failed = {2, 5}
  /\ file.doc.kind = "object"
  /\ file.doc.fields["rawData"] = data

\* the numbers a and b are equal
NumEq(a, b) == a.k = "number" /\ b.k = "number" /\ a.n * Pow10(b.e) = b.n * Pow10(a.e)

Abs(x) == IF x >= 0 THEN x ELSE -x

\* C12: for a numeric current and previous > 0, pct returns the number with one
\* decimal whose ten-fold is a nearest integer to 1000 * (current - previous) /
\* previous (120 vs 100 gives 20.0, 80 vs 100 gives -20.0); for previous 0,
\* null or undefined it returns null; no call ends in a division by zero.
C12_PctDelta ==
  (calc.op = "pct" /\ calc.out # NotRun) =>
    LET c == calc.args[1]
        p == calc.args[2]
        r == calc.out
    IN  /\ (c.k = "number" /\ p.k = "number" /\ p.n > 0) =>
             /\ r.k = "number" /\ r.e = 1
             \* | r*10 - 1000 (c - p) / p | <= 1/2, cleared of denominators
             /\ 2 * Abs(r.n * p.n * Pow10(c.e)
                        - 1000 * (c.n * Pow10(p.e) - p.n * Pow10(c.e)))
                  <= p.n * Pow10(c.e)
        /\ (c = Num(120, 0) /\ p = Num(100, 0)) => r = Num(200, 1)
        /\ (c = Num(80, 0) /\ p = Num(100, 0)) => r = Num(-200, 1)
        /\ (p = Num(0, 0) \/ p = Null \/ p = Undefined) => r = Null
        /\ r.k \in {"number", "null", "NaN"}
        /\ r.k = "NaN" => c = Undefined

C12_Witness ==
  /\ calc.op = "pct"
  /\ calc.args = <<Num(17, 0), Num(16, 0)>>
  /\ calc.out = Num(63, 1)

\* C13 (as claimed): every delta field an adapter reports is pct of the
\* field's current and previous value.
C13_EveryDeltaIsPct ==
  (calc.op = "delta" /\ calc.out # NotRun) =>
    calc.out = pct(calc.args[1], calc.args[2])

\* C13 (amended): every delta field of ga4, youtube, unbounce and vimeo, and
\* every one of meta but costPerLeadDelta, is pct of its pair; meta's
\* costPerLeadDelta is null when either value is missing or 0 and pct of the
\* pair otherwise; gsc's positionDelta is previous - current to one decimal and
\* its clicksDelta is current - previous, both null without a previous row.
C13_DeltaPerField ==
  (calc.op = "delta" /\ calc.out # NotRun) =>
    LET c == calc.args[1]
        p == calc.args[2]
        r == calc.out
    IN  /\ (calc.owner # "gsc" /\ calc.field # "costPerLeadDelta") => r = pct(c, p)
        /\ calc.field = "costPerLeadDelta" =>
             /\ (Falsy(c) \/ Falsy(p)) => r = Null
             /\ ~(Falsy(c) \/ Falsy(p)) => r = pct(c, p)
        /\ (calc.owner = "gsc" /\ p = Undefined) => r = Null
        /\ (calc.owner = "gsc" /\ c.k = "number" /\ p.k = "number") =>
             /\ calc.field = "positionDelta" => NumEq(r, Minus(p, c)) /\ r.e = 1
             /\ calc.field = "clicksDelta" => NumEq(r, Minus(c, p))

C13_Witness ==
  /\ calc.op = "delta"
  /\ calc.owner = "gsc"
  /\ calc.field = "positionDelta"
  /\ calc.args = <<Num(35, 1), Num(82, 1)>>
  /\ calc.out = Num(47, 1)

\* N / D (D > 0) rounded to the nearest integer, a tie going away from zero
HalfAwayFromZero(N, D) ==
  (IF N >= 0 THEN 1 ELSE -1) * ((2 * Abs(N) + D) \div (2 * D))

\* C14 (as claimed): in every adapter's copy, round(val, n) is val rounded to
\* n decimals with a tie going away from zero, negative values included.
C14_RoundHalfAwayFromZero ==
  (calc.op = "round" /\ calc.out # NotRun) =>
    LET v == calc.args[1]
        d == IF calc.args[2] = Undefined THEN DefaultDecimals(calc.owner)
             ELSE calc.args[2].n
    IN  calc.out = Num(HalfAwayFromZero(v.n * Pow10(d), Pow10(v.e)), d)

\* C15: rounding a value that round returned, to the same number of decimals,
\* returns that value.
C15_RoundIdempotent ==
  (calc.op = "round" /\ calc.out # NotRun) =>
    RoundCall(calc.owner, calc.out, calc.args[2]) = calc.out

C15_Witness ==
  /\ calc.op = "round"
  /\ calc.args = <<Num(-25, 2), Num(1, 0)>>
  /\ calc.out = Num(-2, 1)
  /\ ~NumEq(calc.out, calc.args[1])

\* the mean of the non-zero rates of a list, as total / count (0 / 1: none)
MeanRate(items) ==
  LET nz == { i \in 1..Len(items) : items[i].rate # 0 }
      total[S \in SUBSET nz] ==
        IF S = {} THEN 0
        ELSE LET i == CHOOSE j \in S : TRUE IN items[i].rate + total[S \ {i}]
  IN  [total |-> total[nz], count |-> IF nz = {} THEN 1 ELSE Cardinality(nz)]

UnsetCredentials(i) == { Credentials[i][j] : j \in 1..Len(Credentials[i]) } \ env

\* C17 (as claimed): an adapter that runs with one of its credentials unset
\* rejects with the error naming an unset credential and has issued no network
\* call; an error naming a missing credential is never raised after a call;
\* and an adapter with all its credentials set is not stopped by the others'.
C17_MissingCredentialFailsFirst ==
  \A i \in Idx :
    LET f == fetcher[i]
    IN  /\ (f.pc # "idle" /\ UnsetCredentials(i) # {}) =>
             /\ f.pc = "rejected"
             /\ f.error.kind = "missing"
             /\ f.error.name \in UnsetCredentials(i)
             /\ f.sent = 0
        /\ f.error.kind = "missing" => f.sent = 0 /\ f.error.name \notin env
        /\ (f.pc # "idle" /\ UnsetCredentials(i) = {}) => f.sent > 0 /\ f.error.kind # "missing"

\* C18 (as claimed): an adapter whose own request was answered with a
\* non-2xx status or a malformed body rejects with an error whose message
\* holds the vendor's name and the underlying status or message, and an
\* adapter that resolved got a 2xx answer to each of its own requests.
C18_VendorFailureRejectsNamed ==
  /\ \A k \in 1..Len(job.answers) :
       (job.answers[k].status # 200 \/ job.answers[k].body = "malformed") =>
         /\ job.pc = "rejected"
         /\ job.error.vendor
         /\ job.error.detail
  /\ job.pc = "resolved" => \A k \in 1..Len(job.answers) : job.answers[k].status = 200

\* C19: the adapter rejects only on the answer to one of its own requests,
\* never on a sub-item's; whatever sub-items failed, once its own requests
\* succeed it resolves with a record built from the sub-items that did not.
C19_SubItemFailureNeverFailsAdapter ==
  /\ job.pc = "rejected" =>
       /\ Len(job.answers) >= 1
       /\ job.error # NoThrow
       /\ job.error = Get(job.owner, job.answers[Len(job.answers)])
  /\ job.pc = "resolved" =>
       /\ job.error = NoThrow
       /\ job.record.built
       /\ job.record.items = { i \in 1..job.n : job.item[i] = "ok" /\ i \in job.published }

C19_Witness ==
  /\ job.pc = "resolved"
  /\ job.owner \in ItemOwners
  /\ job.n = 2
  /\ job.item = <<"failed", "ok">>
  /\ job.record.items = {2}

\* C20 (as claimed): the record an adapter returns holds every sub-item whose
\* enrichment failed, with an error field.
C20_FailedSubItemsReturnedInline ==
  job.pc = "resolved" =>
    \A i \in 1..job.n : job.item[i] = "failed" => i \in job.record.errors

\* ------------------------------------------------------ dashboard rendering
\* FunnelHealth reads health[stage].status for each of the four stages
\* (part_002 lines 139-169): a document without them throws while rendering
RenderCrashes(doc) ==
  ~ /\ "funnelHealth" \in DOMAIN doc.fields
    /\ Stages \subseteq DOMAIN doc.fields["funnelHealth"]

\* const raw = data.rawData || {}
Raw(doc) ==
  IF "rawData" \in DOMAIN doc.fields THEN doc.fields["rawData"] ELSE EmptyObject

\* {raw.X && !raw.X.error && <XPanel ... />} for each of the seven sources
PanelsRendered(doc) ==
  { s \in SourceNames \cap DOMAIN Raw(doc) : "error" \notin DOMAIN Raw(doc)[s] }

\* the dashboard has loaded the artifact this run wrote
LoadedThisRun ==
  pc = "done" /\ writes = 1 /\ view = "report" /\ observed = file

\* C21 (as claimed): the dashboard that loads a run's artifact renders, without
\* crashing, exactly the panels of the adapters that succeeded in that run, and
\* every failed adapter's slot in the artifact carries an error field.
C21_PanelsAreSucceededAdapters ==
  LoadedThisRun =>
    /\ ~RenderCrashes(observed.doc)
    /\ PanelsRendered(observed.doc) = { Names[i] : i \in Idx \ Failed }
    /\ \A i \in Failed :
         /\ Names[i] \in DOMAIN Raw(observed.doc)
         /\ "error" \in DOMAIN Raw(observed.doc)[Names[i]]

\* C22 (as claimed): each adapter's current and prior windows are exactly 7
\* days long, do not overlap, and the prior one ends where the current one
\* begins.
C22_WindowsSevenDaysAdjacent ==
  (calc.op = "window" /\ calc.out # NotRun) =>
    /\ calc.out.cur.to - calc.out.cur.from = 7 * 24
    /\ calc.out.prev.to - calc.out.prev.from = 7 * 24
    /\ calc.out.prev.to = calc.out.cur.from

\* C23 (as claimed): with a stored access token configured, the Unbounce
\* adapter is never failed by its token refresh: it rejects only with the
\* error of a vendor call. The missing-token error is raised only when no
\* stored token is configured.
C23_RefreshFallsBackToStoredToken ==
  \A i \in Idx :
    (Names[i] = "unbounce" /\ fetcher[i].pc = "rejected") =>
      /\ "UNBOUNCE_ACCESS_TOKEN" \in env => fetcher[i].error.kind = "vendor"
      /\ fetcher[i].error.kind = "missing" => "UNBOUNCE_ACCESS_TOKEN" \notin env

\* C24 (as claimed): a retry answer that the first attempt would have accepted
\* (it parses after the first attempt's cleaning) is accepted on the retry too:
\* the run does not die of a SyntaxError on it.
C24_AcceptanceIndependentOfAttempt ==
  (retryText # NoText /\ ParseFirst(retryText).ok) =>
    /\ JSONParse(retryText).ok
    /\ fatal # Err("SyntaxError", "parse2")

\* C25 (as claimed): the pages the dashboard marks LOW CONV are exactly the
\* listed pages the adapter put in problemPages.
C25_LowConvIsProblemPage ==
  (calc.op = "badge" /\ calc.out # NotRun) => calc.out.badged = calc.out.flagged

\* C26 (as claimed): the cohort average the Unbounce and Vimeo filters use is
\* the mean of the rates of all the cohort's items, zero rates included, and
\* it is 0 only when every rate is zero.
C26_AverageOverAllItems ==
  (calc.op = "flag" /\ calc.owner \in {"unbounce", "vimeo"} /\ calc.out # NotRun) =>
    LET rates == Rates(calc.args[1])
    IN  /\ calc.out.mean.num * Len(rates) = Sum(rates) * calc.out.mean.den
        /\ calc.out.mean.num = 0 <=> \A i \in 1..Len(rates) : rates[i] = 0

\* C27 (as claimed): a delta field whose current or previous value is missing
\* (null or absent) is null.
C27_NoDeltaFromMissingValue ==
  (calc.op = "delta" /\ calc.out # NotRun) =>
    ((calc.args[1].k # "number" \/ calc.args[2].k # "number") => calc.out = Null)

\* the retention drops between consecutive segments, by the later segment
Drops(retention) == [i \in 2..Len(retention) |-> retention[i - 1] - retention[i]]

\* C28 (as claimed): for two or more segments, biggestDropPct is the largest
\* drop in retention between two consecutive segments, in percent, and
\* biggestDropSeconds is the start of a segment where that drop occurs.
C28_BiggestDropIsLargest ==
  (calc.op = "engagement" /\ calc.out # NotRun /\ Len(calc.args[1]) >= 2) =>
    LET drops == Drops(calc.args[1])
        at == calc.out.biggestDropSeconds
    IN  /\ at \in DOMAIN drops
        /\ \A i \in DOMAIN drops : drops[i] <= drops[at]
        /\ NumEq(calc.out.biggestDropPct, Num(drops[at], 1))

\* C29: every analyzed Vimeo video is returned in exactly one of videos (its
\* stats requests succeeded) and errors (they failed); the engagement request
\* is made only for a video whose stats succeeded, and its failure leaves the
\* video in videos with engagement null.
C29_VimeoVideosPartitioned ==
  job.owner = "vimeo" =>
    /\ \A i \in 1..job.n :
         job.engagement[i] # "none" => job.item[i] = "ok"
    /\ (job.pc = "resolved" /\ job.n > 0) =>
         /\ job.record.items \cup job.record.errors = 1..job.n
         /\ job.record.items \cap job.record.errors = {}
         /\ job.record.items = { i \in 1..job.n : job.item[i] = "ok" }
         /\ job.record.errors = { i \in 1..job.n : job.item[i] = "failed" }
         /\ job.record.noEngagement =
              { i \in 1..job.n : job.engagement[i] = "null" }
         /\ job.record.noEngagement \subseteq job.record.items

C29_Witness ==
  /\ job.owner = "vimeo"
  /\ job.pc = "resolved"
  /\ job.n = 2
  /\ job.item = <<"ok", "failed">>
  /\ job.engagement = <<"null", "none">>
  /\ job.record.items = {1}
  /\ job.record.errors = {2}
  /\ job.record.noEngagement = {1}

\* C30: the dashboard is in one of the views loading, error and report, and in
\* loading exactly while its one fetch has not settled; a missing file (non-OK
\* answer) or a body that is not valid JSON gives the error view, the report
\* view is shown only for a completely loaded document, and once the fetch has
\* settled neither the view nor the loaded data changes again.
C30_DashboardViews ==
  /\ [](/\ view \in {"loading", "error", "report"}
        /\ view = "loading" <=> observed.state = "none"
        /\ view = "report" <=> observed.state = "complete"
        /\ view = "error" <=> observed.state \in {"absent", "partial"})
  /\ [][view # "loading" => (view' = view /\ observed' = observed)]_vars

C30_Witness == view = "error" /\ observed = Partial /\ pc = "done"

====
